---- MODULE Spec2Model ----
(***************************************************************************)
(* Apple Reminders MCP server (src/server.py): the boundary layer between  *)
(* the four tools (create_reminder, get_reminder, list_reminder_lists,     *)
(* delete_reminder), the AppleScript text they generate, the osascript     *)
(* runner and the decoding of its raw output.                              *)
(*                                                                         *)
(* Text is a sequence of one-character strings.  Fixed fragments of a      *)
(* template or of a returned message that hold neither a double quote nor  *)
(* a backslash are written as one element (a chunk).  Python's None is the *)
(* value None below.                                                       *)
(***************************************************************************)
EXTENDS Integers, Sequences, FiniteSets, TLC

VARIABLES pc, op, args, script, runs, outcome, result, exc, ret

vars == <<pc, op, args, script, runs, outcome, result, exc, ret>>

\* ------------------------------------------------------------------ bounds

\* Longest text handed directly to sanitize_for_applescript.
MaxLen == 3
\* Most lines in the runner's line-structured output.
MaxLines == 3
\* Largest limit argument of get_reminder.
MaxLimit == 3

\* ------------------------------------------------------------- text basics

Quote == "\""
Backslash == "\\"
NL == "\n"

None == <<"NoneType">>

ArgChars == {"a", Quote, Backslash}

TextsUpTo(n) == UNION {[1..k -> ArgChars] : k \in 0..n}

\* Text arguments of a tool call: empty, ordinary, a quote, a backslash, both.
ArgTexts == {<<>>, <<"a">>, <<Quote>>, <<Backslash>>, <<Backslash, Quote>>}

OptText == ArgTexts \cup {None}

Whitespace == {" ", NL, "\t", "\r"}

Min(a, b) == IF a < b THEN a ELSE b

Truthy(x) == x # None /\ x # <<>>

\* str(x) inside an f-string
Str(x) == IF x = None THEN <<"N", "o", "n", "e">> ELSE x

\* s.startswith(p)
StartsWith(s, p) == Len(s) >= Len(p) /\ SubSeq(s, 1, Len(p)) = p

\* s[k:]
From(s, k) == SubSeq(s, k + 1, Len(s))

\* s[a:b]
Slice(s, a, b) == SubSeq(s, a + 1, Min(b, Len(s)))

RECURSIVE LStrip(_)
LStrip(s) ==
  IF s # <<>> /\ Head(s) \in Whitespace THEN LStrip(Tail(s)) ELSE s

RECURSIVE RStrip(_)
RStrip(s) ==
  IF s # <<>> /\ s[Len(s)] \in Whitespace
  THEN RStrip(SubSeq(s, 1, Len(s) - 1)) ELSE s

\* s.strip()
Strip(s) == RStrip(LStrip(s))

RECURSIVE SplitAcc(_, _, _)
SplitAcc(s, sep, cur) ==
  IF s = <<>> THEN <<cur>>
  ELSE IF StartsWith(s, sep)
       THEN <<cur>> \o SplitAcc(From(s, Len(sep)), sep, <<>>)
       ELSE SplitAcc(Tail(s), sep, Append(cur, Head(s)))

\* s.split(sep)
Split(s, sep) == SplitAcc(s, sep, <<>>)

RECURSIVE Replace(_, _, _)
\* text.replace(old, new) for a one-character old
Replace(text, old, new) ==
  IF text = <<>> THEN <<>>
  ELSE (IF Head(text) = old THEN new ELSE <<Head(text)>>)
       \o Replace(Tail(text), old, new)

\* ---------------------------------------------------------------- sanitizer

\* The two replacements in the wrong order: quotes first, then backslashes.
sanitize_quotes_first(text) ==
  IF text = None THEN <<>>
  ELSE Replace(Replace(text, Quote, <<Backslash, Quote>>),
               Backslash, <<Backslash, Backslash>>)

sanitize_for_applescript(text) ==
  IF text = None THEN <<>>
  ELSE Replace(Replace(text, Backslash, <<Backslash, Backslash>>),
               Quote, <<Backslash, Quote>>)

\* ------------------------------------------------------- create: date, time

\* due_date values: absent, one the date parser rejects, one it accepts.
DueDates == {None, <<"not a date at all xyz">>, <<"2026-01-30">>}

\* dateutil's parser.parse(due_date).date() raises for None and for text it
\* cannot read (the except clause of line 74 takes both).
date_parses(due_date) == due_date = <<"2026-01-30">>

\* strftime('%-d %B %Y') of the parsed date
date_text(due_date) == <<"30", " ", "January", " ", "2026">>

Digits == <<"0", "1", "2", "3", "4", "5", "6", "7", "8", "9">>

DigitVal(c) == CHOOSE d \in 0..9 : Digits[d + 1] = c

\* int(s) succeeds (over digits and letters: no sign, blank or underscore)
int_ok(s) == s # <<>> /\ \A i \in 1..Len(s) : \E d \in 0..9 : Digits[d + 1] = s[i]

RECURSIVE IntOf(_)
IntOf(s) ==
  IF s = <<>> THEN 0
  ELSE IntOf(SubSeq(s, 1, Len(s) - 1)) * 10 + DigitVal(s[Len(s)])

\* due_time values: absent, empty, HHMM, HHMMSS, too short, out of range,
\* not a number.
DueTimes ==
  { None, <<>>, <<"1", "4", "3", "0">>, <<"1", "4", "3", "0", "0", "5">>,
    <<"1", "4">>, <<"2", "4", "6", "0">>, <<"1", "4", "x", "0">> }

\* datetime.time(int(t[:2]), int(t[2:4]), int(t[4:]) if len(t) > 4 else 0)
\* returns (no ValueError)
time_ok(t) ==
  /\ int_ok(Slice(t, 0, 2))
  /\ int_ok(Slice(t, 2, 4))
  /\ (Len(t) > 4 => int_ok(From(t, 4)))
  /\ IntOf(Slice(t, 0, 2)) \in 0..23
  /\ IntOf(Slice(t, 2, 4)) \in 0..59
  /\ (Len(t) > 4 => IntOf(From(t, 4)) \in 0..59)

due_time_obj(t) ==
  IF Truthy(t)
  THEN [h |-> IntOf(Slice(t, 0, 2)), m |-> IntOf(Slice(t, 2, 4)),
        s |-> IF Len(t) > 4 THEN IntOf(From(t, 4)) ELSE 0]
  ELSE [h |-> 9, m |-> 0, s |-> 0]

Pad2(n) == <<Digits[(n \div 10) + 1], Digits[(n % 10) + 1]>>

\* strftime('%H:%M:%S')
time_text(t) ==
  LET o == due_time_obj(t) IN Pad2(o.h) \o <<":">> \o Pad2(o.m) \o <<":">> \o Pad2(o.s)

\* ------------------------------------------------------------ script text

\* A script is a sequence of segments: template text (src "tpl"), the
\* formatted due date (src "fmt"), the completed flag (src "completed"), or the
\* text put in for the parameter src names.
Tpl(text) == [src |-> "tpl", text |-> text]
Val(src, text) == [src |-> src, text |-> text]

\* lines 102-119
create_script(a) ==
  <<Tpl(<<"tell application ", Quote, "Reminders", Quote, NL,
          "set newReminder to make new reminder with properties {name:", Quote>>),
    Val("title", sanitize_for_applescript(a.title)),
    Tpl(<<Quote, ", due date:", "date ", Quote>>),
    Val("fmt", date_text(a.due_date) \o <<" ">> \o time_text(a.due_time)),
    Tpl(<<Quote>>)>>
  \o (IF Truthy(a.notes)
      THEN <<Tpl(<<", body:", Quote>>),
             Val("notes", sanitize_for_applescript(a.notes)), Tpl(<<Quote>>)>>
      ELSE <<>>)
  \o (IF Truthy(a.location)
      THEN <<Tpl(<<", location:", Quote>>),
             Val("location", sanitize_for_applescript(a.location)), Tpl(<<Quote>>)>>
      ELSE <<>>)
  \o <<Tpl(<<"}", NL, "set targetList to list ", Quote>>),
       Val("list_name", sanitize_for_applescript(a.list_name)),
       Tpl(<<Quote, NL, "move newReminder to targetList", NL, "end tell">>)>>

\* lines 148-188
get_script(a) ==
  <<Tpl(<<"tell application ", Quote, "Reminders", Quote, NL,
          "set output to ", Quote, Quote, NL,
          "try", NL,
          "set targetList to list ", Quote>>),
    Val("list_name", sanitize_for_applescript(a.list_name)),
    Tpl(<<Quote, NL,
          "set allReminders to reminders of targetList", NL,
          "repeat with currentReminder in allReminders", NL,
          "set isCompleted to completed of currentReminder", NL,
          "if (isCompleted as string) is ", Quote>>),
    Val("completed", IF a.completed THEN <<"true">> ELSE <<"false">>),
    Tpl(<<Quote, " then", NL,
          "set reminderName to name of currentReminder", NL,
          "set reminderBody to ", Quote, Quote, NL,
          "try", NL, "set reminderBody to body of currentReminder", NL,
          "on error", NL, "set reminderBody to ", Quote, Quote, NL, "end try", NL,
          "set reminderDue to ", Quote, Quote, NL,
          "try", NL, "set reminderDue to (due date of currentReminder) as string", NL,
          "on error", NL, "set reminderDue to ", Quote, Quote, NL, "end try", NL,
          "set completedStatus to (completed of currentReminder) as string", NL,
          "set output to output & reminderName & ", Quote, "|||", Quote,
          " & reminderBody & ", Quote, "|||", Quote,
          " & reminderDue & ", Quote, "|||", Quote,
          " & completedStatus & ", Quote, Backslash, "n", Quote, NL,
          "end if", NL, "end repeat", NL,
          "return output", NL,
          "on error errorMessage", NL,
          "return ", Quote, "ERROR: ", Quote, " & errorMessage", NL,
          "end try", NL, "end tell", NL>>)>>

\* lines 231-244
list_script ==
  <<Tpl(<<"tell application ", Quote, "Reminders", Quote, NL,
          "set listNames to ", Quote, Quote, NL,
          "try", NL, "set allLists to every list", NL,
          "repeat with currentList in allLists", NL,
          "set listNames to listNames & (name of currentList) & ",
          Quote, Backslash, "n", Quote, NL,
          "end repeat", NL, "return listNames", NL,
          "on error errorMessage", NL,
          "return ", Quote, "ERROR: ", Quote, " & errorMessage", NL,
          "end try", NL, "end tell", NL>>)>>

\* lines 278-338: in both templates the comparison takes safe_name, and the
\* SUCCESS and NOT_FOUND messages take {name} and {list_name} as they came.
delete_script(a) ==
  IF Truthy(a.list_name)
  THEN
    <<Tpl(<<"tell application ", Quote, "Reminders", Quote, NL,
            "set deletedCount to 0", NL, "try", NL,
            "set targetList to list ", Quote>>),
      Val("list_name", sanitize_for_applescript(a.list_name)),
      Tpl(<<Quote, NL, "set allReminders to reminders of targetList", NL,
            "repeat with currentReminder in allReminders", NL,
            "if name of currentReminder is ", Quote>>),
      Val("name", sanitize_for_applescript(a.name)),
      Tpl(<<Quote, " then", NL, "delete currentReminder", NL,
            "set deletedCount to deletedCount + 1", NL,
            "end if", NL, "end repeat", NL,
            "if deletedCount > 0 then", NL,
            "return ", Quote, "SUCCESS: Deleted ", Quote, " & deletedCount & ",
            Quote, " reminder(s) named '">>),
      Val("name", Str(a.name)),
      Tpl(<<"' from list '">>),
      Val("list_name", Str(a.list_name)),
      Tpl(<<"'", Quote, NL, "else", NL,
            "return ", Quote, "NOT_FOUND: No reminder named '">>),
      Val("name", Str(a.name)),
      Tpl(<<"' found in list '">>),
      Val("list_name", Str(a.list_name)),
      Tpl(<<"'", Quote, NL, "end if", NL,
            "on error errorMessage", NL,
            "return ", Quote, "ERROR: ", Quote, " & errorMessage", NL,
            "end try", NL, "end tell", NL>>)>>
  ELSE
    <<Tpl(<<"tell application ", Quote, "Reminders", Quote, NL,
            "set deletedCount to 0", NL,
            "set searchedLists to ", Quote, Quote, NL,
            "try", NL, "set allLists to every list", NL,
            "repeat with currentList in allLists", NL,
            "set listName to name of currentList", NL,
            "set searchedLists to searchedLists & listName & ", Quote, ", ", Quote, NL,
            "set allReminders to reminders of currentList", NL,
            "repeat with currentReminder in allReminders", NL,
            "if name of currentReminder is ", Quote>>),
      Val("name", sanitize_for_applescript(a.name)),
      Tpl(<<Quote, " then", NL, "delete currentReminder", NL,
            "set deletedCount to deletedCount + 1", NL,
            "end if", NL, "end repeat", NL, "end repeat", NL,
            "if deletedCount > 0 then", NL,
            "return ", Quote, "SUCCESS: Deleted ", Quote, " & deletedCount & ",
            Quote, " reminder(s) named '">>),
      Val("name", Str(a.name)),
      Tpl(<<"'", Quote, NL, "else", NL,
            "return ", Quote, "NOT_FOUND: No reminder named '">>),
      Val("name", Str(a.name)),
      Tpl(<<"' found in any list. Searched lists: ", Quote, " & searchedLists", NL,
            "end if", NL,
            "on error errorMessage", NL,
            "return ", Quote, "ERROR: ", Quote, " & errorMessage", NL,
            "end try", NL, "end tell", NL>>)>>

\* ------------------------------------------------------ the runner's output

ERROR_TAG == <<"E", "R", "R", "O", "R", ":">>
SUCCESS_TAG == <<"S", "U", "C", "C", "E", "S", "S", ":">>
NOT_FOUND_TAG == <<"N", "O", "T", "_", "F", "O", "U", "N", "D", ":">>
FIELD_SEP == <<"|", "|", "|">>

\* Standard output of osascript that is not line-structured: nothing, blank,
\* plain text, and each sentinel tag followed by a space or not.
TagOutputs ==
  { <<>>,
    <<" ", NL>>,
    <<"o", "k", NL>>,
    <<"E", "R", "R", "O", "R", ":", " ", "b", "o", "o", "m", NL>>,
    <<"E", "R", "R", "O", "R", ":", "b", "o", "o", "m">>,
    <<"S", "U", "C", "C", "E", "S", "S", ":", " ", "D", "e", "l", "e", "t", "e", "d", " ", "1", NL>>,
    <<"S", "U", "C", "C", "E", "S", "S", ":", "x", NL>>,
    <<"N", "O", "T", "_", "F", "O", "U", "N", "D", ":", " ", "n", "o", "n", "e", " ", "h", "e", "r", "e", NL>>,
    <<"N", "O", "T", "_", "F", "O", "U", "N", "D", ":", "x", NL>> }

\* Lines of the get channel: four fields, four fields with an empty due date
\* and a capitalised completed token, five fields, three fields, blank.
LineKinds ==
  { <<"n", "|", "|", "|", "|", "|", "|", "d", "|", "|", "|", "t", "r", "u", "e">>,
    <<"m", "|", "|", "|", "b", "|", "|", "|", "|", "|", "|", "T", "r", "u", "e">>,
    <<"k", "|", "|", "|", "b", "|", "|", "|", "d", "|", "|", "|", "t", "r", "u", "e", "|", "|", "|", "x">>,
    <<"s", "|", "|", "|", "b", "|", "|", "|", "d">>,
    <<" ">> }

RECURSIVE JoinLines(_)
\* each record is followed by the line separator (line 179)
JoinLines(ls) ==
  IF ls = <<>> THEN <<>> ELSE Head(ls) \o <<NL>> \o JoinLines(Tail(ls))

LineOutputs ==
  { JoinLines(ls) : ls \in UNION {[1..k -> LineKinds] : k \in 0..MaxLines} }
  \cup { <<"E", "R", "R", "O", "R", ":", "e", "|", "|", "|", "b", "|", "|", "|", "d", "|", "|", "|", "t", "r", "u", "e", NL>> }

\* What the interpreter may print for a call of op: every operation sees the
\* tagged and untagged samples; the two line-decoding operations see the
\* line-structured outputs too.
Stdouts(o) ==
  IF o \in {"get_reminder", "list_reminder_lists"}
  THEN TagOutputs \cup LineOutputs
  ELSE TagOutputs \cup { <<"n", "|", "|", "|", "|", "|", "|", "d", "|", "|", "|", "t", "r", "u", "e", NL>> }

\* Exceptions subprocess.run raises when the interpreter cannot be started.
LaunchErrors == {"FileNotFoundError", "PermissionError"}

NoExc == "none"

\* `except Exception` at the end of each tool: every exception the modelled
\* steps can raise derives from Exception.
caught_only_value_error(e) == e = "ValueError"

caught_by_facade(e) ==
  e \in {"FileNotFoundError", "PermissionError", "TypeError", "ValueError"}

\* str(e)
exc_text(e) == <<"<", e, ">">>

\* ------------------------------------------------------------ return values

NoRet == [kind |-> "none", val |-> <<>>]
TextRet(t) == [kind |-> "text", val |-> t]
\* json.dumps(list, indent=2)
ArrayRet(items) == [kind |-> "array", val |-> items]
\* json.dumps({"error": msg}, indent=2)
ErrorObjectRet(msg) == [kind |-> "object", val |-> msg]

NoneLimit == <<>>
Limits == {<<n>> : n \in -1..MaxLimit} \cup {NoneLimit}

\* ---------------------------------------------------------------- decoders

\* line 121
create_result(a, res) ==
  TextRet(<<"Reminder '">> \o Str(a.title) \o <<"' created successfully in list '">>
          \o Str(a.list_name) \o <<"'. AppleScript Output: ">> \o res)

\* lines 205-210
reminder_data(parts) ==
  [name |-> parts[1], body |-> parts[2], due_date |-> parts[3],
   completed |-> (parts[4] = <<"t", "r", "u", "e">>)]

RECURSIVE parse_lines(_, _, _)
\* The loop of lines 201-213: [exc, items].  len(reminders) >= limit raises
\* TypeError when limit is None.
parse_lines(lines, limit, reminders) ==
  IF lines = <<>> THEN [exc |-> NoExc, items |-> reminders]
  ELSE LET line == Head(lines)
           parts == Split(line, FIELD_SEP)
       IN IF Strip(line) # <<>> /\ Len(parts) >= 4
          THEN LET appended == Append(reminders, reminder_data(parts))
               IN IF limit = NoneLimit
                  THEN [exc |-> "TypeError", items |-> appended]
                  ELSE IF Len(appended) >= limit[1]
                       THEN [exc |-> NoExc, items |-> appended]
                       ELSE parse_lines(Tail(lines), limit, appended)
          ELSE parse_lines(Tail(lines), limit, reminders)

\* lines 192-215: [exc, ret]
get_result(a, res) ==
  IF res = <<>> \/ StartsWith(res, ERROR_TAG)
  THEN IF StartsWith(res, ERROR_TAG)
       THEN [exc |-> NoExc, ret |-> ErrorObjectRet(res)]
       ELSE [exc |-> NoExc, ret |-> ArrayRet(<<>>)]
  ELSE LET p == parse_lines(Split(Strip(res), <<NL>>), a.limit, <<>>)
       IN [exc |-> p.exc, ret |-> ArrayRet(p.items)]

RECURSIVE stripped_names(_)
\* [name.strip() for name in lines if name.strip()]
stripped_names(lines) ==
  IF lines = <<>> THEN <<>>
  ELSE (IF Strip(Head(lines)) # <<>> THEN <<Strip(Head(lines))>> ELSE <<>>)
       \o stripped_names(Tail(lines))

\* lines 248-255
list_result(res) ==
  IF res = <<>> THEN ArrayRet(<<>>)
  ELSE IF StartsWith(res, ERROR_TAG) THEN ErrorObjectRet(res)
  ELSE ArrayRet(stripped_names(Split(Strip(res), <<NL>>)))

\* lines 342-349
delete_result(res) ==
  IF StartsWith(res, SUCCESS_TAG) THEN TextRet(From(res, 9))
  ELSE IF StartsWith(res, NOT_FOUND_TAG) THEN TextRet(From(res, 11))
  ELSE IF StartsWith(res, ERROR_TAG) THEN TextRet(res)
  ELSE TextRet(<<"Reminder deletion completed. ">> \o res)

\* The except clause ending each tool (lines 122-124, 217-219, 257-259, 351-353)
facade_failure(o, e) ==
  IF o = "create_reminder"
  THEN TextRet(<<"Failed to create reminder: ">> \o exc_text(e))
  ELSE IF o = "get_reminder"
  THEN ErrorObjectRet(<<"Failed to get reminders: ">> \o exc_text(e))
  ELSE IF o = "list_reminder_lists"
  THEN ErrorObjectRet(<<"Failed to get reminder lists: ">> \o exc_text(e))
  ELSE TextRet(<<"Failed to delete reminder: ">> \o exc_text(e))

\* ------------------------------------------------------------------ actions

Init ==
  /\ pc = "idle"
  /\ op = "none"
  /\ args = <<>>
  /\ script = <<>>
  /\ runs = 0
  /\ outcome = "none"
  /\ result = <<>>
  /\ exc = NoExc
  /\ ret = NoRet

\* sanitize_for_applescript called on its own (as the tests do)
sanitize_call ==
  /\ pc = "idle"
  /\ \E text \in TextsUpTo(MaxLen) \cup {None} :
       /\ op' = "sanitize_for_applescript"
       /\ args' = [text |-> text]
       /\ ret' = TextRet(sanitize_for_applescript(text))
  /\ pc' = "done"
  /\ UNCHANGED <<script, runs, outcome, result, exc>>

\* create_reminder up to the call of run_applescript (lines 70-119)
create_reminder_call ==
  /\ pc = "idle"
  /\ \E title \in OptText, due_date \in DueDates, due_time \in DueTimes,
        notes \in OptText, list_name \in OptText, location \in OptText :
       LET a == [title |-> title, due_date |-> due_date, due_time |-> due_time,
                 notes |-> notes, list_name |-> list_name, location |-> location]
       IN /\ op' = "create_reminder"
          /\ args' = a
          /\ IF ~date_parses(due_date)
             THEN /\ ret' = TextRet(<<"Error: Could not parse date '">> \o Str(due_date)
                                    \o <<"'. Please use a format like YYYY-MM-DD or 'tomorrow'.">>)
                  /\ pc' = "done"
                  /\ script' = <<>>
             ELSE IF Truthy(due_time) /\ ~time_ok(due_time)
             THEN /\ ret' = TextRet(<<"Error: Invalid time format '">> \o Str(due_time)
                                    \o <<"'. Use HHMMSS format (e.g., 140000 for 2 PM).">>)
                  /\ pc' = "done"
                  /\ script' = <<>>
             ELSE /\ script' = create_script(a)
                  /\ pc' = "spawn"
                  /\ ret' = NoRet
  /\ UNCHANGED <<runs, outcome, result, exc>>

\* get_reminder up to the call of run_applescript (lines 144-188)
get_reminder_call ==
  /\ pc = "idle"
  /\ \E list_name \in OptText, completed \in BOOLEAN, limit \in Limits :
       LET a == [list_name |-> list_name, completed |-> completed, limit |-> limit]
       IN /\ op' = "get_reminder"
          /\ args' = a
          /\ IF ~Truthy(list_name)
             THEN /\ ret' = ErrorObjectRet(<<"list_name is required">>)
                  /\ pc' = "done"
                  /\ script' = <<>>
             ELSE /\ script' = get_script(a)
                  /\ pc' = "spawn"
                  /\ ret' = NoRet
  /\ UNCHANGED <<runs, outcome, result, exc>>

\* list_reminder_lists up to the call of run_applescript (lines 230-244)
list_reminder_lists_call ==
  /\ pc = "idle"
  /\ op' = "list_reminder_lists"
  /\ args' = <<>>
  /\ script' = list_script
  /\ pc' = "spawn"
  /\ UNCHANGED <<runs, outcome, result, exc, ret>>

\* delete_reminder up to the call of run_applescript (lines 277-338)
delete_reminder_call ==
  /\ pc = "idle"
  /\ \E name \in OptText, list_name \in OptText :
       LET a == [name |-> name, list_name |-> list_name]
       IN /\ op' = "delete_reminder"
          /\ args' = a
          /\ script' = delete_script(a)
  /\ pc' = "spawn"
  /\ UNCHANGED <<runs, outcome, result, exc, ret>>

\* run_applescript with a retry after a non-zero exit
run_applescript_retrying ==
  /\ pc = "spawn"
  /\ runs < 2
  /\ runs' = runs + 1
  /\ \/ \E out \in Stdouts(op) :
          /\ outcome' = "stdout"
          /\ result' = Strip(out)
          /\ pc' = "decode"
          /\ exc' = NoExc
     \/ /\ outcome' = "nonzero"
        /\ result' = <<>>
        /\ pc' = "spawn"
        /\ exc' = NoExc
     \/ \E e \in LaunchErrors :
          /\ outcome' = "launch"
          /\ result' = <<>>
          /\ exc' = e
          /\ pc' = "except"
  /\ UNCHANGED <<op, args, script, ret>>

\* run_applescript (lines 32-44): one subprocess.run; its stripped standard
\* output, "" after CalledProcessError, any other exception passed on.
run_applescript ==
  /\ pc = "spawn"
  /\ runs' = runs + 1
  /\ \/ \E out \in Stdouts(op) :
          /\ outcome' = "stdout"
          /\ result' = Strip(out)
          /\ pc' = "decode"
          /\ exc' = NoExc
     \/ /\ outcome' = "nonzero"
        /\ result' = <<>>
        /\ pc' = "decode"
        /\ exc' = NoExc
     \/ \E e \in LaunchErrors :
          /\ outcome' = "launch"
          /\ result' = <<>>
          /\ exc' = e
          /\ pc' = "except"
  /\ UNCHANGED <<op, args, script, ret>>

\* create_reminder after run_applescript returned (line 121)
create_reminder_decode ==
  /\ pc = "decode"
  /\ op = "create_reminder"
  /\ ret' = create_result(args, result)
  /\ pc' = "done"
  /\ UNCHANGED <<op, args, script, runs, outcome, result, exc>>

\* get_reminder after run_applescript returned (lines 192-215)
get_reminder_decode ==
  /\ pc = "decode"
  /\ op = "get_reminder"
  /\ LET g == get_result(args, result)
     IN IF g.exc = NoExc
        THEN /\ ret' = g.ret
             /\ pc' = "done"
             /\ exc' = exc
        ELSE /\ exc' = g.exc
             /\ pc' = "except"
             /\ ret' = ret
  /\ UNCHANGED <<op, args, script, runs, outcome, result>>

\* list_reminder_lists after run_applescript returned (lines 248-255)
list_reminder_lists_decode ==
  /\ pc = "decode"
  /\ op = "list_reminder_lists"
  /\ ret' = list_result(result)
  /\ pc' = "done"
  /\ UNCHANGED <<op, args, script, runs, outcome, result, exc>>

\* delete_reminder after run_applescript returned (lines 342-349)
delete_reminder_decode ==
  /\ pc = "decode"
  /\ op = "delete_reminder"
  /\ ret' = delete_result(result)
  /\ pc' = "done"
  /\ UNCHANGED <<op, args, script, runs, outcome, result, exc>>

\* An exception reaches the tool's except clause: caught and turned into the
\* tool's failure value, or passed on to the caller.
facade_except ==
  /\ pc = "except"
  /\ IF caught_by_facade(exc)
     THEN /\ ret' = facade_failure(op, exc)
          /\ pc' = "done"
     ELSE /\ ret' = ret
          /\ pc' = "escaped"
  /\ UNCHANGED <<op, args, script, runs, outcome, result, exc>>

\* The call is over; the server waits for the next one.  Nothing of a call
\* is kept.
next_request ==
  /\ pc = "done"
  /\ pc' = "idle"
  /\ op' = "none"
  /\ args' = <<>>
  /\ script' = <<>>
  /\ runs' = 0
  /\ outcome' = "none"
  /\ result' = <<>>
  /\ exc' = NoExc
  /\ ret' = NoRet

Next ==
  \/ sanitize_call
  \/ create_reminder_call
  \/ get_reminder_call
  \/ list_reminder_lists_call
  \/ delete_reminder_call
  \/ run_applescript
  \/ create_reminder_decode
  \/ get_reminder_decode
  \/ list_reminder_lists_decode
  \/ delete_reminder_decode
  \/ facade_except
  \/ next_request

Spec == Init /\ [][Next]_vars

\* ----------------------------------------------------- vocabulary of claims

Tools4 == {"create_reminder", "get_reminder", "list_reminder_lists", "delete_reminder"}

\* The text parameters of each tool that reach its script.
TextParams == {"title", "notes", "location", "list_name", "name"}

RECURSIVE Flatten(_)
\* The characters of a script, each marked u when it comes from the caller.
Flatten(segs) ==
  IF segs = <<>> THEN <<>>
  ELSE [i \in 1..Len(Head(segs).text) |->
          [c |-> Head(segs).text[i], u |-> Head(segs).src # "tpl"]]
       \o Flatten(Tail(segs))

RECURSIVE Lex(_, _, _)
\* Reading cs from i as AppleScript reads it (a quote opens and closes a
\* literal, a backslash in a literal takes the next character with it): no
\* caller character lies outside a literal, none closes one, none escapes a
\* template character, and the text ends outside a literal.
Lex(cs, i, inStr) ==
  IF i > Len(cs) THEN ~inStr
  ELSE IF ~inStr
       THEN ~cs[i].u /\ Lex(cs, i + 1, cs[i].c = Quote)
       ELSE IF cs[i].c = Backslash
            THEN i + 1 <= Len(cs) /\ cs[i + 1].u = cs[i].u /\ Lex(cs, i + 2, TRUE)
            ELSE IF cs[i].c = Quote
                 THEN ~cs[i].u /\ Lex(cs, i + 1, FALSE)
                 ELSE Lex(cs, i + 1, TRUE)

LiteralsIntact(segs) == Lex(Flatten(segs), 1, FALSE)

EverySegmentSanitized(segs, a) ==
  \A i \in 1..Len(segs) :
    (segs[i].src \in TextParams /\ a[segs[i].src] # None)
      => segs[i].text = sanitize_for_applescript(a[segs[i].src])

RECURSIVE BackslashRun(_, _)
\* The length of the run of backslashes of s that ends at position i.
BackslashRun(s, i) ==
  IF i >= 1 /\ s[i] = Backslash THEN 1 + BackslashRun(s, i - 1) ELSE 0

QuotesEscaped(s) ==
  \A i \in 1..Len(s) : s[i] = Quote => BackslashRun(s, i - 1) % 2 = 1

FreeRunsEven(s) ==
  \A j \in 1..Len(s) :
    (s[j] = Backslash /\ (j = Len(s) \/ s[j + 1] \notin {Backslash, Quote}))
      => BackslashRun(s, j) % 2 = 0

RECURSIVE ReadLiteral(_)
\* The content of a double-quoted literal read with \\ -> \ and \" -> ":
\* ok is FALSE at a bare quote or a backslash that escapes neither.
ReadLiteral(s) ==
  IF s = <<>> THEN [ok |-> TRUE, text |-> <<>>]
  ELSE IF Head(s) = Quote THEN [ok |-> FALSE, text |-> <<>>]
  ELSE IF Head(s) = Backslash
       THEN IF Len(s) >= 2 /\ s[2] \in {Backslash, Quote}
            THEN LET r == ReadLiteral(From(s, 2))
                 IN [ok |-> r.ok, text |-> <<s[2]>> \o r.text]
            ELSE [ok |-> FALSE, text |-> <<>>]
       ELSE LET r == ReadLiteral(Tail(s))
            IN [ok |-> r.ok, text |-> <<Head(s)>> \o r.text]

\* The text after a leading tag, without the blank that separates the two
\* ("ERROR: boom" gives "boom").
Remainder(s, tag) == LStrip(From(s, Len(tag)))

FailurePrefixes ==
  { "Error: Could not parse date '", "Error: Invalid time format '",
    "Failed to create reminder: ", "Failed to delete reminder: " }

\* A returned value that reports a failure: a JSON error object, or a text
\* that opens with the error tag or with one of the tools' error phrases.
IsFailure(r) ==
  \/ r.kind = "object"
  \/ /\ r.kind = "text"
     /\ r.val # <<>>
     /\ (StartsWith(r.val, ERROR_TAG) \/ Head(r.val) \in FailurePrefixes)

CreatedSuccessfully(r) ==
  /\ r.kind = "text"
  /\ \E i \in 1..Len(r.val) : r.val[i] = "' created successfully in list '"

RECURSIVE ValidRecords(_)
\* One record per line that is not blank and has at least four fields.
ValidRecords(lines) ==
  IF lines = <<>> THEN <<>>
  ELSE (IF Strip(Head(lines)) # <<>> /\ Len(Split(Head(lines), FIELD_SEP)) >= 4
        THEN <<reminder_data(Split(Head(lines), FIELD_SEP))>> ELSE <<>>)
       \o ValidRecords(Tail(lines))

RecordsOf(raw) == IF raw = <<>> THEN <<>> ELSE ValidRecords(Split(raw, <<NL>>))

Take(s, k) == IF k <= 0 THEN <<>> ELSE SubSeq(s, 1, Min(k, Len(s)))

ValidationFails ==
  \/ /\ op = "create_reminder"
     /\ \/ ~date_parses(args.due_date)
        \/ Truthy(args.due_time) /\ ~time_ok(args.due_time)
  \/ /\ op = "get_reminder"
     /\ ~Truthy(args.list_name)

RequiredAbsent ==
  \/ op = "create_reminder" /\ (args.title = None \/ args.due_date = None)
  \/ op = "get_reminder" /\ args.list_name = None
  \/ op = "delete_reminder" /\ args.name = None

\* ------------------------------------------------------------------- claims

\* C1: in the script of every tool, each piece put in for a text parameter
\* (one that was given) is sanitize_for_applescript of that parameter, and no
\* character of the caller closes or leaves a double-quoted literal of the
\* script.
C1_EveryParameterSanitized ==
  (op \in Tools4 /\ script # <<>>)
    => EverySegmentSanitized(script, args) /\ LiteralsIntact(script)

\* C1, for the tools other than delete_reminder: their scripts take every text
\* parameter sanitized and keep their literals intact.
C1_SanitizedOutsideDelete ==
  (op \in Tools4 \ {"delete_reminder"} /\ script # <<>>)
    => EverySegmentSanitized(script, args) /\ LiteralsIntact(script)

\* C2: sanitize_for_applescript(None) is empty, and for a text t every quote of
\* the output follows an odd run of backslashes, every backslash run not
\* followed by a quote is even, and reading the output as the content of a
\* literal consumes it all and gives t back.
C2_SanitizedIsSafe ==
  (pc = "done" /\ op = "sanitize_for_applescript")
    => IF args.text = None
       THEN ret.val = <<>>
       ELSE /\ QuotesEscaped(ret.val)
            /\ FreeRunsEven(ret.val)
            /\ ReadLiteral(ret.val) = [ok |-> TRUE, text |-> args.text]

C2_Witness ==
  /\ pc = "done"
  /\ op = "sanitize_for_applescript"
  /\ args.text = <<Backslash, Quote, "a">>
  /\ ret.val = <<Backslash, Backslash, Backslash, Quote, "a">>

\* C3: a tool whose runner output starts with ERROR: returns a failure whose
\* message is the text after the tag.
C3_ErrorTagIsFailure ==
  (pc = "done" /\ op \in Tools4 /\ outcome = "stdout" /\ StartsWith(result, ERROR_TAG))
    => IsFailure(ret) /\ ret.val = Remainder(result, ERROR_TAG)

\* C4: when the automation run of create_reminder fails (the target list does
\* not exist: the create script has no error wrapper, so the interpreter
\* exits non-zero), create_reminder returns a failure and not the
\* 'created successfully' confirmation.
C4_CreateSurfacesRunFailure ==
  (pc = "done" /\ op = "create_reminder" /\ outcome = "nonzero")
    => IsFailure(ret) /\ ~CreatedSuccessfully(ret)

\* C5: a call with a required parameter absent has returned a failure and
\* has not invoked the runner.
C5_MissingRequiredFailsAtOnce ==
  RequiredAbsent => pc = "done" /\ runs = 0 /\ IsFailure(ret)

\* C5, for the parameters the code does check: an absent due_date of
\* create_reminder and an absent list_name of get_reminder return a failure
\* without a run.
C5_CheckedParametersFailAtOnce ==
  (\/ op = "create_reminder" /\ args.due_date = None
   \/ op = "get_reminder" /\ args.list_name = None)
    => pc = "done" /\ runs = 0 /\ IsFailure(ret)

\* C6: for an integer limit (taken from 0 up: no result has fewer than zero
\* records) and raw output of record lines (not an ERROR: report),
\* get_reminder returns the first min(limit, n) of the n valid records of the
\* raw output, in order, and never more than limit.
C6_FirstMinLimitRecords ==
  (/\ pc = "done" /\ op = "get_reminder" /\ outcome = "stdout"
   /\ args.limit # NoneLimit /\ args.limit[1] >= 0
   /\ ~StartsWith(result, ERROR_TAG))
    => /\ ret.kind = "array"
       /\ ret.val = Take(RecordsOf(result), Min(args.limit[1], Len(RecordsOf(result))))
       /\ Len(ret.val) <= args.limit[1]

\* C7: no exception leaves a tool, and a finished call holds a value, for
\* every outcome of the runner and every argument.
C7_NoExceptionEscapes ==
  /\ pc # "escaped"
  /\ (pc = "done" /\ op \in Tools4) => ret.kind \in {"text", "array", "object"}

C7_Witness ==
  /\ pc = "done"
  /\ op \in Tools4
  /\ outcome = "launch"
  /\ exc \in LaunchErrors
  /\ IsFailure(ret)

\* C8: for raw get output that does not start with ERROR:, get_reminder
\* returns an array of one record per valid line, in order, up to the limit
\* (taken from 0 up); shorter lines are dropped and empty output gives the
\* empty array.
C8_ArrayOfValidLines ==
  (/\ pc = "done" /\ op = "get_reminder" /\ outcome \in {"stdout", "nonzero"}
   /\ args.limit # NoneLimit /\ args.limit[1] >= 0
   /\ ~StartsWith(result, ERROR_TAG))
    => /\ ret.kind = "array"
       /\ ret.val = Take(RecordsOf(result), Min(args.limit[1], Len(RecordsOf(result))))

\* C8, for a limit of at least one: the array is the first min(limit, n)
\* valid records.
C8_ArrayOfValidLinesPositiveLimit ==
  (/\ pc = "done" /\ op = "get_reminder" /\ outcome \in {"stdout", "nonzero"}
   /\ args.limit # NoneLimit /\ ~StartsWith(result, ERROR_TAG))
    => (args.limit[1] >= 1
          => /\ ret.kind = "array"
             /\ ret.val = Take(RecordsOf(result),
                               Min(args.limit[1], Len(RecordsOf(result)))))

\* C9: delete_reminder returns the text after SUCCESS:, the text after
\* NOT_FOUND: (not a failure), or any untagged output behind
\* "Reminder deletion completed. ".
C9_DeleteDecodesThreeWays ==
  (pc = "done" /\ op = "delete_reminder" /\ outcome = "stdout")
    => IF StartsWith(result, SUCCESS_TAG)
       THEN ret = TextRet(Remainder(result, SUCCESS_TAG))
       ELSE IF StartsWith(result, NOT_FOUND_TAG)
       THEN ret = TextRet(Remainder(result, NOT_FOUND_TAG)) /\ ~IsFailure(ret)
       ELSE IF StartsWith(result, ERROR_TAG)
       THEN TRUE
       ELSE ret = TextRet(<<"Reminder deletion completed. ">> \o result)

\* C9, for a tag followed by a blank: the message is the text after it.
C9_DeleteDecodesAfterBlank ==
  (/\ pc = "done" /\ op = "delete_reminder" /\ outcome = "stdout"
   /\ \/ StartsWith(result, SUCCESS_TAG \o <<" ">>)
      \/ StartsWith(result, NOT_FOUND_TAG \o <<" ">>))
    => IF StartsWith(result, SUCCESS_TAG)
       THEN ret = TextRet(Remainder(result, SUCCESS_TAG))
       ELSE ret = TextRet(Remainder(result, NOT_FOUND_TAG)) /\ ~IsFailure(ret)

\* C10: the runner is invoked at most once in a call: it has run exactly
\* once when its output is decoded or its exception handled, and not at all
\* when validation failed.
C10_RunnerAtMostOnce ==
  /\ runs <= 1
  /\ pc = "spawn" => runs = 0
  /\ pc = "decode" => runs = 1
  /\ (pc = "done" /\ outcome # "none") => runs = 1
  /\ (op \in Tools4 /\ ValidationFails) => pc = "done" /\ runs = 0 /\ outcome = "none"

C10_Witness ==
  /\ pc = "done"
  /\ op \in Tools4
  /\ outcome = "nonzero"
  /\ runs = 1

====
